---- MODULE Spec2Model ----
(***************************************************************************)
(* Training orchestration of deep_networks.models: the train loops of GAN, *)
(* DiscoGAN and WACGAN (improved Wasserstein ACGAN), the WACGAN step       *)
(* scheduler, the optimizer pair and checkpoint resume.                    *)
(*                                                                         *)
(* One process constructs a model and calls train(); the process can be    *)
(* terminated at a loop head and a later process resumes from the          *)
(* checkpoint directory, which outlives the processes.                     *)
(***************************************************************************)
EXTENDS Integers, FiniteSets, Sequences, TLC

(***************************************************************************)
(* Bounds of the model.                                                    *)
(***************************************************************************)
MaxCalls == 2          \* train() calls over all processes (Spec)
MaxEpochs == 2         \* num_epochs is drawn from 0..MaxEpochs (Spec)
MaxExamples == 4       \* num_examples is drawn from 1..MaxExamples
BatchSize == 2         \* batch_size of every model
MaxSaveStep == 3       \* save_step is 0 or MaxSaveStep (Spec)
MaxDIters == 2         \* d_iters is 1 or MaxDIters (Spec)
MaxHighIters == 1      \* d_high_iters is 0 or MaxHighIters (Spec)
MaxInitialRounds == 1  \* d_intial_high_rounds is 0 or MaxInitialRounds (Spec)
MaxStepRounds == 2     \* d_step_high_rounds is 1 or MaxStepRounds (Spec)
SchedExamples == 8     \* num_examples of the scheduler runs (SchedSpec)
SchedEpochs == 6       \* num_epochs of the scheduler runs (SchedSpec)
SchedMaxDIters == 3         \* d_iters in 0..SchedMaxDIters (SchedSpec)
SchedMaxHighIters == 3      \* d_high_iters in 0..SchedMaxHighIters
SchedMaxInitialRounds == 2  \* d_intial_high_rounds in 0..SchedMaxInitialRounds
SchedMaxStepRounds == 3     \* d_step_high_rounds in 0..SchedMaxStepRounds
ResumeEpochs == 3       \* num_epochs of the scenario runs (ResumeSpec)
ResumeSaveStep == 1     \* save_step of the scenario runs (ResumeSpec)
SampleStride == 2       \* sample_step as an int stride (LoopSpec)
MaxSmooth == 4          \* d_label_smooth in -MaxSmooth..MaxSmooth (LossSpec)
MaxOutputs == 4         \* discriminator outputs of a batch (LossSpec)
MaxClasses == 3         \* num_classes of WACGAN (LossSpec)
MaxLabelRows == 1       \* examples of a WACGAN batch (LossSpec)
MaxLogit == 1           \* critic outputs in -MaxLogit..MaxLogit (ValueSpec)
MaxRegOps == 2          \* regularization losses of a partition (ValueSpec)
MaxSamples == 2         \* num_samples of a sampler call (SampleSpec)

NoStep == -1           \* Python None / an unbound local, where a step is expected

Variants == {"GAN", "DiscoGAN", "WACGAN"}

VARIABLES
    model,        \* the constructed model: variant and constructor arguments
    args,         \* arguments of the running train() call
    pc,           \* position of the process: idle, epoch, batch, final, done, error
    error,        \* divisor of the ZeroDivisionError that ended train(), or "none"
    num_batches,  \* local of train()
    success,      \* local of train()
    saved_step,   \* local of train()
    step,         \* local of train(): the global step
    start_epoch,  \* local of train()
    start_idx,    \* local of train()
    epoch,        \* loop variable of the epoch loop
    idx,          \* next value of the batch loop variable
    params,       \* in-memory variables of the session, as update counts
    ckpts,        \* checkpoint directory: saved step -> snapshot of params
    latest,       \* step of the most recently written checkpoint, or NoStep
    calls,        \* train() calls made so far
    iters,        \* batches executed by the running train() call
    call_saves,   \* save() calls made by the running train() call
    last,         \* the batch executed last by the running train() call
    hist,         \* for each step ever executed: the optimizers of its first
                  \* execution and the number of its executions
    summaries,    \* step tags of the records added to the call's summary writer
    samples,      \* step arguments of the call's sample_fn invocations
    d_label_smooth, \* the model's d_label_smooth, in units of 1/SmoothUnits
    targets,      \* the label tensors of the model's losses
    num_classes,  \* the model's num_classes (0: the variant has no classes)
    feed,         \* class labels of a batch: y of the real examples, c of
                  \* the generated ones
    class_targets, \* the label tensors of the classification losses
    outputs,      \* what the networks and the regularizers give for a batch
    loss_values,  \* the losses evaluated on that batch
    sampled       \* the session run of the latest call of a sampler

vars == <<model, args, pc, error, num_batches, success, saved_step, step,
          start_epoch, start_idx, epoch, idx, params, ckpts, latest, calls,
          iters, call_saves, last, hist, summaries, samples,
          d_label_smooth, targets, num_classes, feed, class_targets,
          outputs, loss_values, sampled>>

losses == <<d_label_smooth, targets, num_classes, feed, class_targets,
            outputs, loss_values>>

locals == <<num_batches, success, saved_step, step, start_epoch, start_idx,
            epoch, idx>>

(***************************************************************************)
(* The session's variables.  Every partition has parameters (var_list of   *)
(* its optimizer) and normalization statistics (its UPDATE_OPS); a value   *)
(* is the number of updates the partition has received.                    *)
(***************************************************************************)
FreshParams == [g_vars |-> 0, d_vars |-> 0, g_stats |-> 0, d_stats |-> 0]

\* sample_step is an int or a collection of steps
IntStep(k) == [int |-> TRUE, stride |-> k, steps |-> {}]

StepSet(ss) == [int |-> FALSE, stride |-> 0, steps |-> ss]

NoArgs == [num_epochs |-> 0, resume |-> FALSE, resume_step |-> NoStep,
           checkpoint_dir |-> FALSE, save_step |-> 0, sample_fn |-> FALSE,
           sample_step |-> IntStep(0), log_dir |-> FALSE]

NoBatch == [step |-> NoStep, ops |-> {}, epoch |-> 0, idx |-> 0,
            g_reads_d |-> "none", effects |-> << >>]

EmptyDir == [k \in {} |-> FreshParams]

(***************************************************************************)
(* Optimizer pair (_build_optimizer): the variables an optimizer op        *)
(* writes are its var_list and the UPDATE_OPS it is control-dependent on.  *)
(***************************************************************************)
g_optim_writes(variant) == {"g_vars", "g_stats"}

d_optim_with_g_stats(variant) == {"d_vars", "d_stats", "g_stats"}

d_optim_writes(variant) ==
    IF variant = "WACGAN"
    THEN {"d_vars", "d_stats", "g_stats"}   \* update_ops_d + update_ops_g
    ELSE {"d_vars", "d_stats"}

\* a fetched tensor that is no optimizer op writes nothing
OpWrites(op, variant) ==
    IF op = "g_optim" THEN g_optim_writes(variant)
    ELSE IF op = "d_optim" THEN d_optim_writes(variant)
    ELSE {}

\* sess.run(ops): every fetched op, and every op it depends on, runs once
sess_run(ops, variant, p) ==
    LET written == UNION {OpWrites(op, variant) : op \in ops}
    IN  [f \in DOMAIN p |-> IF f \in written THEN p[f] + 1 ELSE p[f]]

train_D_without_d_optim == {}

train_D == {"d_optim"}

train_D_G_without_g_optim == {"d_optim"}

train_D_G == {"d_optim", "g_optim"}

(***************************************************************************)
(* WACGAN step scheduler.  A decision is the set of optimizer ops of the   *)
(* step, or the divisor that raised ZeroDivisionError.                     *)
(***************************************************************************)
Ran(ops) == [raised |-> "none", ops |-> ops]

Raised(divisor) == [raised |-> divisor, ops |-> {}]

initial_steps_one_short(m) == m.d_high_iters * m.d_intial_high_rounds - 1

initial_steps(m) == m.d_high_iters * m.d_intial_high_rounds

passing_steps_full_rounds(m) ==
    initial_steps(m) + m.d_step_high_rounds * m.d_iters

passing_steps_no_wrap(m) ==
    initial_steps(m)
    + (m.d_step_high_rounds
       - (m.d_intial_high_rounds % m.d_step_high_rounds)) * m.d_iters

\* evaluated only for d_step_high_rounds > 0
passing_steps(m) ==
    initial_steps(m)
    + ((m.d_step_high_rounds
        - (m.d_intial_high_rounds % m.d_step_high_rounds))
       % m.d_step_high_rounds) * m.d_iters

block_steps_extra_round(m) == m.d_high_iters + m.d_step_high_rounds * m.d_iters

block_steps(m) == m.d_high_iters + (m.d_step_high_rounds - 1) * m.d_iters

WarmupBranchOffByOne(m, s) ==
    IF m.d_high_iters = 0 THEN Raised("d_high_iters")
    ELSE IF s % m.d_high_iters # 0 THEN Ran(train_D)
    ELSE Ran(train_D_G)

WarmupBranch(m, s) ==
    IF m.d_high_iters = 0 THEN Raised("d_high_iters")
    ELSE IF (s + 1) % m.d_high_iters # 0 THEN Ran(train_D)
    ELSE Ran(train_D_G)

PassingBranchOffByOne(m, s) ==
    IF m.d_iters = 0 THEN Raised("d_iters")
    ELSE LET passing_step == (s - initial_steps(m)) % m.d_iters
         IN  IF passing_step % m.d_iters # 0 THEN Ran(train_D)
             ELSE Ran(train_D_G)

PassingBranch(m, s) ==
    IF m.d_iters = 0 THEN Raised("d_iters")
    ELSE LET passing_step == (s - initial_steps(m)) % m.d_iters
         IN  IF (passing_step + 1) % m.d_iters # 0 THEN Ran(train_D)
             ELSE Ran(train_D_G)

BlockBranchOffByOne(m, s) ==
    IF block_steps(m) = 0 THEN Raised("block_steps")
    ELSE LET block_step == (s - passing_steps(m)) % block_steps(m)
         IN  IF block_step < m.d_high_iters THEN Ran(train_D)
             ELSE IF m.d_iters = 0 THEN Raised("d_iters")
             ELSE IF (block_step - m.d_high_iters) % m.d_iters # 0
                  THEN Ran(train_D)
                  ELSE Ran(train_D_G)

BlockBranch(m, s) ==
    IF block_steps(m) = 0 THEN Raised("block_steps")
    ELSE LET block_step == (s - passing_steps(m)) % block_steps(m)
         IN  IF block_step + 1 < m.d_high_iters THEN Ran(train_D)
             ELSE IF m.d_iters = 0 THEN Raised("d_iters")
             ELSE IF (block_step + 1 - m.d_high_iters) % m.d_iters # 0
                  THEN Ran(train_D)
                  ELSE Ran(train_D_G)

Schedule(m, s) ==
    IF s < initial_steps(m) THEN WarmupBranch(m, s)
    ELSE IF s < passing_steps(m) THEN PassingBranch(m, s)
    ELSE BlockBranch(m, s)

\* the branch of the scheduler that decides step s
Phase(m, s) ==
    IF s < initial_steps(m) THEN "WARMUP"
    ELSE IF s < passing_steps(m) THEN "TRANSITION"
    ELSE "STEADY"

\* the optimizers of the batch at the loop's current position
batch_ops_since_call ==
    IF model.variant = "WACGAN" THEN Schedule(model, iters)
    ELSE Ran(train_D_G)

batch_ops ==
    IF model.variant = "WACGAN" THEN Schedule(model, step)
    ELSE Ran(train_D_G)

(***************************************************************************)
(* _build_losses: the label tensors of the binary cross-entropy losses.    *)
(* A label is a multiple of 1/SmoothUnits, a tensor has one label for      *)
(* every discriminator output of a batch.                                  *)
(***************************************************************************)
SmoothUnits == 4

\* d_label_smooth=0.25
DefaultSmooth == 1

ones_like(n) == [i \in 1..n |-> SmoothUnits]

zeros_like(n) == [i \in 1..n |-> 0]

labels_real_any_sign(s, n) == [i \in 1..n |-> ones_like(n)[i] - s]

labels_real(s, n) ==
    IF s > 0 THEN [i \in 1..n |-> ones_like(n)[i] - s] ELSE ones_like(n)

NoTargets == [built |-> FALSE, d_real |-> << >>, d_fake |-> << >>,
              g |-> << >>]

\* d_real, d_fake, g: the labels of d_loss_real, d_loss_fake and g_loss of
\* every discriminator (GAN: one; DiscoGAN: x and y, with one labels_real).
\* The critic losses of WACGAN have no binary labels.
build_losses(variant, s, n) ==
    IF variant = "GAN"
    THEN [built |-> TRUE, d_real |-> <<labels_real(s, n)>>,
          d_fake |-> <<zeros_like(n)>>, g |-> <<ones_like(n)>>]
    ELSE IF variant = "DiscoGAN"
    THEN LET shared == labels_real(s, n)
         IN  [built |-> TRUE, d_real |-> <<shared, shared>>,
              d_fake |-> <<zeros_like(n), zeros_like(n)>>,
              g |-> <<ones_like(n), ones_like(n)>>]
    ELSE [built |-> TRUE, d_real |-> << >>, d_fake |-> << >>, g |-> << >>]

(***************************************************************************)
(* WACGAN._build_losses: the label tensors of the classification losses.   *)
(* A label is an exact fraction; a tensor has, for every example of the    *)
(* batch, one label for every class 0..num_classes-1.                      *)
(***************************************************************************)
Rat(n, d) == [num |-> n, den |-> d]

RatAdd(a, b) == Rat(a.num * b.den + b.num * a.den, a.den * b.den)

RatSub(a, b) == Rat(a.num * b.den - b.num * a.den, a.den * b.den)

RatMul(a, b) == Rat(a.num * b.num, a.den * b.den)

RatEq(a, b) == a.num * b.den = b.num * a.den

one_hot(label, depth) ==
    [j \in 0..(depth - 1) |-> IF j = label THEN Rat(1, 1) ELSE Rat(0, 1)]

labels_c_real_negative_only(s, depth, label) ==
    IF s > 0
    THEN [j \in 0..(depth - 1) |->
            IF j = label THEN Rat(SmoothUnits - s, SmoothUnits)
            ELSE Rat(s, SmoothUnits * depth)]
    ELSE one_hot(label, depth)

labels_c_real(s, depth, label) ==
    LET hot == one_hot(label, depth)
    IN  IF s > 0
        THEN LET smooth_pos == RatSub(Rat(1, 1), Rat(s, SmoothUnits))
                 smooth_neg == Rat(s, SmoothUnits * depth)
             IN  [j \in DOMAIN hot |->
                    RatAdd(RatMul(hot[j], smooth_pos), smooth_neg)]
        ELSE hot

NoFeed == [y |-> << >>, c |-> << >>]

NoClassTargets == [c_real |-> << >>, c_fake |-> << >>]

\* c_real: the labels of d_c_loss; c_fake: the labels of g_c_loss
build_class_losses(variant, s, depth, f) ==
    IF variant = "WACGAN"
    THEN [c_real |-> [i \in DOMAIN f.y |-> labels_c_real(s, depth, f.y[i])],
          c_fake |-> [i \in DOMAIN f.c |-> one_hot(f.c[i], depth)]]
    ELSE NoClassTargets

(***************************************************************************)
(* WACGAN._build_losses: the composition of the losses, evaluated on the   *)
(* critic outputs, classification losses, gradient penalty and registered  *)
(* regularization losses of one batch.                                     *)
(***************************************************************************)
RECURSIVE Sum(_)
Sum(seq) == IF seq = << >> THEN 0 ELSE seq[1] + Sum(Tail(seq))

reduce_mean(tensor) == Rat(Sum(tensor), Len(tensor))

\* tf.add_n(reg_ops) if reg_ops else 0.0
reg_loss(reg_ops) == IF reg_ops # << >> THEN Rat(Sum(reg_ops), 1) ELSE Rat(0, 1)

d_loss_real_minus_fake(o) ==
    RatSub(reduce_mean(o.d_real), reduce_mean(o.d_fake))

d_loss(o) == RatSub(reduce_mean(o.d_fake), reduce_mean(o.d_real))

NoOutputs == [d_real |-> << >>, d_fake |-> << >>, d_c_loss |-> 0,
              g_c_loss |-> 0, d_grad_loss |-> 0, g_reg_ops |-> << >>,
              d_reg_ops |-> << >>]

NoLossValues == [evaluated |-> FALSE]

eval_losses(o) ==
    LET g_loss     == RatSub(Rat(0, 1), reduce_mean(o.d_fake))
        g_reg_loss == reg_loss(o.g_reg_ops)
        d_reg_loss == reg_loss(o.d_reg_ops)
    IN  [evaluated    |-> TRUE,
         g_loss       |-> g_loss,
         g_reg_loss   |-> g_reg_loss,
         g_total_loss |-> RatAdd(RatAdd(g_loss, Rat(o.g_c_loss, 1)),
                                 g_reg_loss),
         d_loss_real  |-> reduce_mean(o.d_real),
         d_loss_fake  |-> reduce_mean(o.d_fake),
         d_loss       |-> d_loss(o),
         d_reg_loss   |-> d_reg_loss,
         d_total_loss |-> RatAdd(RatAdd(RatAdd(d_loss(o), Rat(o.d_c_loss, 1)),
                                        Rat(o.d_grad_loss, 1)),
                                 d_reg_loss)]

(***************************************************************************)
(* Samplers: GAN.sample(num_samples, z), WACGAN.sample(num_samples, z, c), *)
(* DiscoGAN.sample_x(y) and sample_y(x).  A call says which arguments are  *)
(* not None; has_z stands for the explicit input of every sampler.         *)
(***************************************************************************)
NoCall == [fn |-> "none", has_z |-> FALSE, has_c |-> FALSE, has_n |-> FALSE,
           n |-> 0, c |-> << >>]

NoSample == [call |-> NoCall, path |-> "none", is_training |-> FALSE,
             fetches |-> {}, z |-> "none", c |-> "none", labels |-> << >>,
             rows |-> 0]

Samplers(variant) ==
    IF variant = "DiscoGAN" THEN {"sample_x", "sample_y"} ELSE {"sample"}

SamplerFetchesWithOptim(variant, fn) == {"g.outputs", "g_optim"}

SamplerFetches(variant, fn) ==
    IF variant = "GAN" THEN {"g.outputs"}
    ELSE IF variant = "WACGAN" THEN {"g.activations"}
    ELSE IF fn = "sample_x" THEN {"x_g.outputs", "y_g_recon.outputs"}
    ELSE {"y_g.outputs", "x_g_recon.outputs"}

SamplerPathZFirst(variant, call) ==
    IF call.has_z THEN "explicit"
    ELSE IF variant # "DiscoGAN" /\ call.has_n THEN "drawn"
    ELSE "default"

SamplerPath(variant, call) ==
    IF variant = "GAN"
    THEN IF call.has_z THEN "explicit"
         ELSE IF call.has_n THEN "drawn"
         ELSE "default"
    ELSE IF variant = "WACGAN"
    THEN IF call.has_z /\ call.has_c THEN "explicit"
         ELSE IF call.has_n THEN "drawn"
         ELSE "default"
    ELSE IF call.has_z THEN "explicit" ELSE "default"

\* sample_c: np.random.randint(num_classes, size=(num_samples, ))
sample_c(depth, n) == [1..n -> 0..(depth - 1)]

\* the session runs a call can make: what it feeds and what it fetches
SamplerRuns(variant, depth, call) ==
    LET path == SamplerPath(variant, call)
        conditional == variant = "WACGAN"
        run(source, labels, rows) ==
            [call |-> call, path |-> path, is_training |-> FALSE,
             fetches |-> SamplerFetches(variant, call.fn),
             z |-> source,
             c |-> IF conditional THEN source ELSE "none",
             labels |-> labels, rows |-> rows]
    IN  IF path = "explicit"
        THEN {run("given", IF conditional THEN call.c ELSE << >>, 0)}
        ELSE IF path = "drawn"
        THEN IF conditional
             THEN {run("drawn", labels, call.n) :
                      labels \in sample_c(depth, call.n)}
             ELSE {run("drawn", << >>, call.n)}
        ELSE {run("default", << >>, 0)}

(***************************************************************************)
(* Persistence facility: save(checkpoint_dir, step) and                    *)
(* load(checkpoint_dir, step_or_latest) -> (success, step).                *)
(***************************************************************************)
save(dir, s, p) ==
    [k \in (DOMAIN dir) \cup {s} |-> IF k = s THEN p ELSE dir[k]]

LoadKey(resume_step) == IF resume_step = NoStep THEN latest ELSE resume_step

LoadFound(resume_step) == LoadKey(resume_step) \in DOMAIN ckpts

\* what a failed load may return as its second component
FailedLoadSteps == {0, 1}

(***************************************************************************)
(* train(): resume and loop bounds.                                        *)
(***************************************************************************)
ResumeStepAlways(ok, saved) == IF saved = NoStep THEN 0 ELSE saved

ResumeStepNext(ok, saved) == IF ok THEN saved + 1 ELSE 0

ResumeStep(ok, saved) == IF ok THEN saved ELSE 0

StartEpochOffByOne(ok, s, nb) == IF ok THEN (s \div nb) + 1 ELSE 0

\* evaluated only for nb > 0 when ok
StartEpoch(ok, s, nb) == IF ok THEN s \div nb ELSE 0

StartIdxZero(s, nb) == 0

\* evaluated only for nb > 0
StartIdx(s, nb) == s % nb

SaveDueBeforeIncrement(a, s) ==
    a.checkpoint_dir /\ a.save_step # 0 /\ (s - 1) % a.save_step = 0

SaveDue(a, s) ==
    a.checkpoint_dir /\ a.save_step # 0 /\ s % a.save_step = 0

FinalSaveAllVariants(a, variant) == a.checkpoint_dir

FinalSaveNeedsSaveStep(a, variant) ==
    variant # "DiscoGAN" /\ a.checkpoint_dir /\ a.save_step # 0

FinalSaveDue(a, variant) == variant # "DiscoGAN" /\ a.checkpoint_dir

\* truth value of sample_step: a non-zero int or a non-empty collection
SampleStepSet(a) ==
    IF a.sample_step.int THEN a.sample_step.stride # 0
    ELSE a.sample_step.steps # {}

SampleDuePreIncrement(a, s) ==
    /\ a.sample_fn
    /\ SampleStepSet(a)
    /\ \/ a.sample_step.int /\ (s - 1) % a.sample_step.stride = 0
       \/ ~a.sample_step.int /\ (s - 1) \in a.sample_step.steps

SampleDue(a, s) ==
    /\ a.sample_fn
    /\ SampleStepSet(a)
    /\ \/ a.sample_step.int /\ s % a.sample_step.stride = 0
       \/ ~a.sample_step.int /\ s \in a.sample_step.steps

SummaryDueEveryBatch(a, variant, ops) == a.log_dir

\* train_D returns None, every other batch the fetched summary
SummaryDue(a, variant, ops) ==
    a.log_dir /\ (variant # "WACGAN" \/ ops = train_D_G)

\* One sess.run fetches d_optim and g_optim with no control dependency
\* between them: the gradient of g_total_loss, which runs through the
\* discriminator, reads d_vars before or after d_optim has assigned them.
JointReadOrders == {"before_d_optim", "after_d_optim"}

ReadOrders(ops) == IF ops = train_D_G THEN JointReadOrders ELSE {"none"}

Effect(due, name) == IF due THEN <<name>> ELSE << >>

batch_effects_sample_first(summary_due, save_due, sample_due) ==
    <<"sess.run">> \o Effect(summary_due, "add_summary") \o <<"step += 1">>
        \o Effect(sample_due, "sample_fn") \o Effect(save_due, "save")

\* the effects of one iteration of the batch loop, in the order of its
\* statements
batch_effects(summary_due, save_due, sample_due) ==
    <<"sess.run">> \o Effect(summary_due, "add_summary") \o <<"step += 1">>
        \o Effect(save_due, "save") \o Effect(sample_due, "sample_fn")

(***************************************************************************)
(* Initial states: a process that has constructed its model and not yet    *)
(* called train(), with an empty checkpoint directory.                     *)
(***************************************************************************)
PlainModel(variant, n) ==
    [variant |-> variant, num_examples |-> n, batch_size |-> BatchSize,
     d_iters |-> 1, d_high_iters |-> 0, d_intial_high_rounds |-> 0,
     d_step_high_rounds |-> 2]

WacganModel(n, d, h, i, r) ==
    [variant |-> "WACGAN", num_examples |-> n, batch_size |-> BatchSize,
     d_iters |-> d, d_high_iters |-> h, d_intial_high_rounds |-> i,
     d_step_high_rounds |-> r]

\* num_examples below batch_size, and the whole multiples of batch_size
ExampleCounts ==
    {n \in 1..MaxExamples : n = 1 \/ n % BatchSize = 0}

Models ==
    {PlainModel(v, n) : v \in {"GAN", "DiscoGAN"}, n \in ExampleCounts}
    \cup {WacganModel(n, d, h, i, r) :
            n \in ExampleCounts, d \in {1, MaxDIters}, h \in {0, MaxHighIters},
            i \in {0, MaxInitialRounds}, r \in {1, MaxStepRounds}}

\* d_high_iters=5, d_intial_high_rounds=2, d_step_high_rounds=10, d_iters=3
ScenarioSchedule == WacganModel(SchedExamples, 3, 5, 2, 10)

SchedModels ==
    {WacganModel(SchedExamples, d, h, i, r) :
        d \in 0..SchedMaxDIters, h \in 0..SchedMaxHighIters,
        i \in 0..SchedMaxInitialRounds, r \in 0..SchedMaxStepRounds}
    \cup {ScenarioSchedule}

InitOf(m) ==
    /\ model = m
    /\ args = NoArgs
    /\ pc = "idle"
    /\ error = "none"
    /\ num_batches = 0
    /\ success = FALSE
    /\ saved_step = NoStep
    /\ step = 0
    /\ start_epoch = 0
    /\ start_idx = 0
    /\ epoch = 0
    /\ idx = 0
    /\ params = FreshParams
    /\ ckpts = EmptyDir
    /\ latest = NoStep
    /\ calls = 0
    /\ iters = 0
    /\ call_saves = 0
    /\ last = NoBatch
    /\ hist = [k \in {} |-> [ops |-> {}, runs |-> 0]]
    /\ sampled = NoSample
    /\ summaries = << >>
    /\ samples = << >>

\* the constructor has built the losses
Constructed ==
    /\ d_label_smooth = DefaultSmooth
    /\ targets = build_losses(model.variant, d_label_smooth, model.batch_size)
    /\ num_classes = IF model.variant = "WACGAN" THEN MaxClasses ELSE 0
    /\ feed = IF model.variant = "WACGAN"
              THEN [y |-> [i \in 1..model.batch_size |-> 0],
                    c |-> [i \in 1..model.batch_size |-> 0]]
              ELSE NoFeed
    /\ class_targets =
           build_class_losses(model.variant, d_label_smooth, num_classes, feed)
    /\ outputs = NoOutputs
    /\ loss_values = NoLossValues

Init == \E m \in Models : InitOf(m) /\ Constructed

InitSched == \E m \in SchedModels : InitOf(m) /\ Constructed

(***************************************************************************)
(* train(), from its call to the head of the epoch loop: num_batches, the  *)
(* resume, start_epoch and (WACGAN) the scheduler thresholds.              *)
(***************************************************************************)
TrainCall(a) ==
    /\ pc \in {"idle", "done", "error"}
    /\ calls < MaxCalls
    /\ calls' = calls + 1
    /\ args' = a
    /\ iters' = 0
    /\ call_saves' = 0
    /\ last' = NoBatch
    /\ summaries' = << >>
    /\ samples' = << >>
    /\ num_batches' = model.num_examples \div model.batch_size
    /\ IF a.resume /\ a.checkpoint_dir
       THEN IF LoadFound(a.resume_step)
            THEN /\ success' = TRUE
                 /\ saved_step' = LoadKey(a.resume_step)
                 /\ params' = ckpts[LoadKey(a.resume_step)]
            ELSE /\ success' = FALSE
                 /\ saved_step' \in FailedLoadSteps
                 /\ params' = params
       ELSE /\ success' = FALSE
            /\ saved_step' = NoStep
            /\ params' = params
    /\ step' = ResumeStep(success', saved_step')
    /\ IF success' /\ num_batches' = 0
       THEN /\ pc' = "error"
            /\ error' = "num_batches"
            /\ start_epoch' = 0
       ELSE /\ start_epoch' = StartEpoch(success', step', num_batches')
            /\ IF model.variant = "WACGAN" /\ model.d_step_high_rounds = 0
               THEN pc' = "error" /\ error' = "d_step_high_rounds"
               ELSE pc' = "epoch" /\ error' = "none"
    /\ epoch' = start_epoch'
    /\ start_idx' = 0
    /\ idx' = 0
    /\ UNCHANGED <<model, ckpts, latest, hist>>
    /\ UNCHANGED <<losses, sampled>>

(***************************************************************************)
(* Head of the epoch loop: the next epoch computes start_idx and opens     *)
(* the batch range; past the last epoch the loop is left.                  *)
(***************************************************************************)
EpochHead ==
    /\ pc = "epoch"
    /\ IF epoch < args.num_epochs
       THEN IF num_batches = 0
            THEN /\ pc' = "error"
                 /\ error' = "num_batches"
                 /\ UNCHANGED <<start_idx, idx>>
            ELSE /\ start_idx' = StartIdx(step, num_batches)
                 /\ idx' = start_idx'
                 /\ pc' = "batch"
                 /\ error' = error
       ELSE /\ pc' = "final"
            /\ UNCHANGED <<error, start_idx, idx>>
    /\ UNCHANGED <<model, args, num_batches, success, saved_step, step,
                   start_epoch, epoch, params, ckpts, latest, calls, iters,
                   call_saves, last, hist, summaries, samples>>
    /\ UNCHANGED <<losses, sampled>>

(***************************************************************************)
(* One iteration of the batch loop: the optimizers of the step, the        *)
(* summary record, the step increment, the periodic checkpoint and the     *)
(* sample.                                                                 *)
(***************************************************************************)
TrainBatch ==
    /\ pc = "batch"
    /\ idx < num_batches
    /\ LET decision == batch_ops
       IN  IF decision.raised # "none"
           THEN /\ pc' = "error"
                /\ error' = decision.raised
                /\ UNCHANGED <<step, idx, params, ckpts, latest, iters,
                               call_saves, last, hist, summaries, samples>>
           ELSE /\ params' = sess_run(decision.ops, model.variant, params)
                /\ \E order \in ReadOrders(decision.ops) :
                     last' = [step |-> step, ops |-> decision.ops,
                              epoch |-> epoch, idx |-> idx,
                              g_reads_d |-> order,
                              effects |->
                                  batch_effects(
                                      SummaryDue(args, model.variant,
                                                 decision.ops),
                                      SaveDue(args, step + 1),
                                      SampleDue(args, step + 1))]
                /\ summaries' = IF SummaryDue(args, model.variant, decision.ops)
                              THEN Append(summaries, step) ELSE summaries
                /\ hist' = [k \in (DOMAIN hist) \cup {step} |->
                              IF k # step THEN hist[k]
                              ELSE IF step \in DOMAIN hist
                              THEN [hist[step] EXCEPT !.runs = @ + 1]
                              ELSE [ops |-> decision.ops, runs |-> 1]]
                /\ step' = step + 1
                /\ iters' = iters + 1
                /\ IF SaveDue(args, step')
                   THEN /\ ckpts' = save(ckpts, step', params')
                        /\ latest' = step'
                        /\ call_saves' = call_saves + 1
                   ELSE UNCHANGED <<ckpts, latest, call_saves>>
                /\ samples' = IF SampleDue(args, step')
                              THEN Append(samples, step') ELSE samples
                /\ idx' = idx + 1
                /\ UNCHANGED <<pc, error>>
    /\ UNCHANGED <<model, args, num_batches, success, saved_step,
                   start_epoch, start_idx, epoch, calls>>
    /\ UNCHANGED <<losses, sampled>>

\* the batch range is exhausted: on to the next epoch
EpochEnd ==
    /\ pc = "batch"
    /\ idx >= num_batches
    /\ epoch' = epoch + 1
    /\ pc' = "epoch"
    /\ UNCHANGED <<model, args, error, num_batches, success, saved_step, step,
                   start_epoch, start_idx, idx, params, ckpts, latest, calls,
                   iters, call_saves, last, hist, summaries, samples>>
    /\ UNCHANGED <<losses, sampled>>

(***************************************************************************)
(* After the epoch loop: the final checkpoint (GAN and WACGAN), return.    *)
(***************************************************************************)
FinalSave ==
    /\ pc = "final"
    /\ IF FinalSaveDue(args, model.variant)
       THEN /\ ckpts' = save(ckpts, step, params)
            /\ latest' = step
            /\ call_saves' = call_saves + 1
       ELSE UNCHANGED <<ckpts, latest, call_saves>>
    /\ pc' = "done"
    /\ UNCHANGED <<model, args, error, num_batches, success, saved_step, step,
                   start_epoch, start_idx, epoch, idx, params, calls, iters,
                   last, hist, summaries, samples>>
    /\ UNCHANGED <<losses, sampled>>

(***************************************************************************)
(* Process termination: everything in memory is lost, the checkpoint       *)
(* directory stays; the next process constructs the model afresh.          *)
(***************************************************************************)
Stop ==
    /\ pc # "idle"
    /\ pc' = "idle"
    /\ args' = NoArgs
    /\ error' = "none"
    /\ num_batches' = 0
    /\ success' = FALSE
    /\ saved_step' = NoStep
    /\ step' = 0
    /\ start_epoch' = 0
    /\ start_idx' = 0
    /\ epoch' = 0
    /\ idx' = 0
    /\ params' = FreshParams
    /\ iters' = 0
    /\ call_saves' = 0
    /\ last' = NoBatch
    /\ summaries' = << >>
    /\ samples' = << >>
    /\ UNCHANGED <<model, ckpts, latest, calls, hist>>
    /\ UNCHANGED <<losses, sampled>>

(***************************************************************************)
(* Specifications.                                                         *)
(***************************************************************************)
\* resume_step is read only by a load, so calls that do not load leave it None
\* the defaults of train(): sample_step=100, sample_fn=None, log_dir='logs'
DefaultOutputs ==
    [sample_fn : {FALSE}, sample_step : {IntStep(100)}, log_dir : {TRUE}]

WithOutputs(as, os) ==
    {[num_epochs |-> a.num_epochs, resume |-> a.resume,
      resume_step |-> a.resume_step, checkpoint_dir |-> a.checkpoint_dir,
      save_step |-> a.save_step, sample_fn |-> o.sample_fn,
      sample_step |-> o.sample_step, log_dir |-> o.log_dir] :
        a \in as, o \in os}

TrainArgs ==
    {a \in WithOutputs(
             [num_epochs : 0..MaxEpochs, resume : BOOLEAN,
              resume_step : {NoStep, MaxSaveStep}, checkpoint_dir : BOOLEAN,
              save_step : {0, MaxSaveStep}], DefaultOutputs) :
        /\ (a.resume /\ a.checkpoint_dir) \/ a.resume_step = NoStep
        /\ a.checkpoint_dir \/ a.save_step = MaxSaveStep}

Train == \E a \in TrainArgs : TrainCall(a)

Next == Train \/ EpochHead \/ TrainBatch \/ EpochEnd \/ FinalSave \/ Stop

Spec == Init /\ [][Next]_vars

\* uninterrupted WACGAN runs over a wide range of scheduler configurations
SchedArgs ==
    WithOutputs(
        [num_epochs : {SchedEpochs}, resume : {FALSE}, resume_step : {NoStep},
         checkpoint_dir : {TRUE}, save_step : {MaxSaveStep}], DefaultOutputs)

TrainSched == pc = "idle" /\ \E a \in SchedArgs : TrainCall(a)

NextSched == TrainSched \/ EpochHead \/ TrainBatch \/ EpochEnd \/ FinalSave

SchedSpec == InitSched /\ [][NextSched]_vars

\* the loop is sequential code: a step that can be taken is taken
FairSchedSpec == SchedSpec /\ WF_vars(NextSched)

\* train calls of every scheduler configuration that are cut short and
\* resumed from the latest checkpoint
RestartArgs ==
    WithOutputs(
        [num_epochs : {MaxEpochs}, resume : {TRUE}, resume_step : {NoStep},
         checkpoint_dir : {TRUE}, save_step : {MaxSaveStep}], DefaultOutputs)

TrainRestart == \E a \in RestartArgs : TrainCall(a)

NextRestart ==
    TrainRestart \/ EpochHead \/ TrainBatch \/ EpochEnd \/ FinalSave \/ Stop

RestartSpec == InitSched /\ [][NextRestart]_vars

\* train calls that save and sample at the same steps, the second call on
\* the model the first has trained
OrderArgs ==
    WithOutputs(
        [num_epochs : {MaxEpochs}, resume : BOOLEAN, resume_step : {NoStep},
         checkpoint_dir : {TRUE}, save_step : {MaxSaveStep}],
        [sample_fn : {TRUE}, sample_step : {StepSet({1, MaxSaveStep})},
         log_dir : BOOLEAN])

TrainOrder == \E a \in OrderArgs : TrainCall(a)

NextOrder == TrainOrder \/ EpochHead \/ TrainBatch \/ EpochEnd \/ FinalSave

OrderSpec == Init /\ [][NextOrder]_vars

\* resumes of the spec's scenario: batch_size=128, num_examples=1280; a
\* first call that is interrupted or returns, then one call with resume=True
ScenarioModels ==
    {[PlainModel(v, n) EXCEPT !.batch_size = 128] :
        v \in Variants, n \in {1280, 384}}

InitResume == \E m \in ScenarioModels : InitOf(m) /\ Constructed

ResumeArgs ==
    WithOutputs(
        [num_epochs : {ResumeEpochs}, resume : BOOLEAN, resume_step : {NoStep},
         checkpoint_dir : {TRUE}, save_step : {ResumeSaveStep}],
        DefaultOutputs)

TrainResume ==
    /\ calls <= 1
    /\ \E a \in ResumeArgs : (a.resume <=> calls = 1) /\ TrainCall(a)

NextResume ==
    TrainResume \/ EpochHead \/ TrainBatch \/ EpochEnd \/ FinalSave \/ Stop

ResumeSpec == InitResume /\ [][NextResume]_vars

\* single uninterrupted calls over the choices of sample_fn, sample_step,
\* log_dir, checkpoint_dir and save_step
LoopArgs ==
    WithOutputs(
        [num_epochs : {MaxEpochs}, resume : {FALSE}, resume_step : {NoStep},
         checkpoint_dir : BOOLEAN, save_step : {0, MaxSaveStep}],
        [sample_fn : BOOLEAN,
         sample_step : {IntStep(0), IntStep(SampleStride), StepSet({}),
                        StepSet({1, MaxSaveStep})},
         log_dir : BOOLEAN])

TrainLoop == pc = "idle" /\ \E a \in LoopArgs : TrainCall(a)

NextLoop == TrainLoop \/ EpochHead \/ TrainBatch \/ EpochEnd \/ FinalSave

LoopSpec == Init /\ [][NextLoop]_vars

(***************************************************************************)
(* One train call and calls of the samplers with every combination of      *)
(* arguments: any number of them before and after the call, and one        *)
(* between two of its batches.                                             *)
(***************************************************************************)
SamplerCalls(variant) ==
    {call \in [fn : Samplers(variant), has_z : BOOLEAN, has_c : BOOLEAN,
               has_n : BOOLEAN, n : 0..MaxSamples, c : {<<0>>, << >>}] :
        /\ (variant # "WACGAN") => ~call.has_c
        /\ (variant = "DiscoGAN") => ~call.has_n
        /\ call.has_n \/ call.n = 0
        /\ call.has_c <=> call.c # << >>}

Sample ==
    /\ pc \in {"idle", "batch", "done"}
    /\ pc = "batch" => sampled = NoSample
    /\ \E call \in SamplerCalls(model.variant) :
         \E run \in SamplerRuns(model.variant, num_classes, call) :
            /\ sampled' = run
            /\ params' = sess_run(run.fetches, model.variant, params)
    /\ UNCHANGED <<model, args, pc, error, ckpts, latest, calls, iters,
                   call_saves, last, hist, summaries, samples, losses>>
    /\ UNCHANGED locals

SampleArgs ==
    WithOutputs(
        [num_epochs : {MaxEpochs}, resume : {FALSE}, resume_step : {NoStep},
         checkpoint_dir : {FALSE}, save_step : {0}], DefaultOutputs)

TrainSample == pc = "idle" /\ \E a \in SampleArgs : TrainCall(a)

NextSample ==
    TrainSample \/ EpochHead \/ TrainBatch \/ EpochEnd \/ FinalSave \/ Sample

SampleSpec == Init /\ [][NextSample]_vars

(***************************************************************************)
(* The constructor from before _build_losses, for every d_label_smooth     *)
(* and batch shape of GAN and DiscoGAN, and for every d_label_smooth,      *)
(* num_classes and class labels of WACGAN.                                 *)
(***************************************************************************)
LossModels ==
    {[PlainModel(v, MaxExamples) EXCEPT !.batch_size = n] :
        v \in {"GAN", "DiscoGAN"}, n \in 1..MaxOutputs}
    \cup {[WacganModel(MaxExamples, 1, 0, 0, 1) EXCEPT !.batch_size = n] :
            n \in 1..MaxLabelRows}

\* the class labels a batch of n examples can carry
Feeds(variant, depth, n) ==
    IF variant = "WACGAN"
    THEN [y : [1..n -> 0..(depth - 1)], c : [1..n -> 0..(depth - 1)]]
    ELSE {NoFeed}

InitLoss ==
    \E m \in LossModels, s \in (-MaxSmooth)..MaxSmooth :
        \E depth \in IF m.variant = "WACGAN" THEN 1..MaxClasses ELSE {0} :
            \E f \in Feeds(m.variant, depth, m.batch_size) :
                /\ InitOf(m)
                /\ d_label_smooth = s
                /\ targets = NoTargets
                /\ num_classes = depth
                /\ feed = f
                /\ class_targets = NoClassTargets
                /\ outputs = NoOutputs
                /\ loss_values = NoLossValues

BuildLosses ==
    /\ ~targets.built
    /\ targets' = build_losses(model.variant, d_label_smooth, model.batch_size)
    /\ class_targets' =
           build_class_losses(model.variant, d_label_smooth, num_classes, feed)
    /\ UNCHANGED <<model, args, pc, error, params, ckpts, latest, calls, iters,
                   call_saves, last, hist, summaries, samples, d_label_smooth,
                   num_classes, feed, outputs, loss_values, sampled>>
    /\ UNCHANGED locals

NextLoss == BuildLosses

LossSpec == InitLoss /\ [][NextLoss]_vars

(***************************************************************************)
(* One evaluation of the losses of a constructed WACGAN, for every batch   *)
(* of critic outputs and every collection of regularization losses.        *)
(***************************************************************************)
ValueRows == 2

RegCollections == {[i \in 1..n |-> i] : n \in 0..MaxRegOps}

BatchOutputs ==
    [d_real : [1..ValueRows -> (-MaxLogit)..MaxLogit],
     d_fake : [1..ValueRows -> (-MaxLogit)..MaxLogit],
     d_c_loss : {0, 1}, g_c_loss : {0, 1}, d_grad_loss : {0, 1},
     g_reg_ops : RegCollections, d_reg_ops : RegCollections]

InitValue ==
    \E o \in BatchOutputs :
        /\ InitOf([WacganModel(MaxExamples, 1, 0, 0, 1)
                     EXCEPT !.batch_size = ValueRows])
        /\ d_label_smooth = DefaultSmooth
        /\ targets = build_losses(model.variant, d_label_smooth,
                                  model.batch_size)
        /\ num_classes = MaxClasses
        /\ feed = [y |-> [i \in 1..model.batch_size |-> 0],
                   c |-> [i \in 1..model.batch_size |-> 0]]
        /\ class_targets = build_class_losses(model.variant, d_label_smooth,
                                              num_classes, feed)
        /\ outputs = o
        /\ loss_values = NoLossValues

EvalLosses ==
    /\ ~loss_values.evaluated
    /\ loss_values' = eval_losses(outputs)
    /\ UNCHANGED <<model, args, pc, error, params, ckpts, latest, calls, iters,
                   call_saves, last, hist, summaries, samples, d_label_smooth,
                   targets, num_classes, feed, class_targets, outputs,
                   sampled>>
    /\ UNCHANGED locals

NextValue == EvalLosses

ValueSpec == InitValue /\ [][NextValue]_vars

(***************************************************************************)
(* Properties.                                                             *)
(***************************************************************************)
Executed == last # NoBatch

Joint == "g_optim" \in last.ops

\* the decision rule as the design document states it
RuleInitial(m) == m.d_high_iters * m.d_intial_high_rounds

RulePassing(m) ==
    RuleInitial(m)
    + ((m.d_step_high_rounds
        - (m.d_intial_high_rounds % m.d_step_high_rounds))
       % m.d_step_high_rounds) * m.d_iters

RuleBlock(m) == m.d_high_iters + (m.d_step_high_rounds - 1) * m.d_iters

RuleUpdatesGenerator(m, s) ==
    \/ /\ s < RuleInitial(m)
       /\ (s + 1) % m.d_high_iters = 0
    \/ /\ RuleInitial(m) <= s
       /\ s < RulePassing(m)
       /\ (((s - RuleInitial(m)) % m.d_iters) + 1) % m.d_iters = 0
    \/ /\ s >= RulePassing(m)
       /\ LET b == (s - RulePassing(m)) % RuleBlock(m)
          IN  /\ b + 1 >= m.d_high_iters
              /\ (b + 1 - m.d_high_iters) % m.d_iters = 0

\* C1: every step that WACGAN.train executes runs train_D_G exactly when
\* the three-branch rule says the generator is updated, and train_D otherwise.
C1_ScheduleMatchesRule ==
    (model.variant = "WACGAN" /\ Executed) =>
        /\ last.ops \in {train_D, train_D_G}
        /\ Joint <=> RuleUpdatesGenerator(model, last.step)

\* a joint update in the STEADY phase, after WARMUP and TRANSITION were passed
C1_Witness ==
    /\ model.variant = "WACGAN"
    /\ Executed
    /\ Joint
    /\ 0 < initial_steps(model)
    /\ initial_steps(model) < passing_steps(model)
    /\ last.step >= passing_steps(model) + block_steps(model)

\* C2: a step executed again after a restart runs the same optimizers as its
\* first execution did, whatever the epoch, the batch index and the number
\* of train() calls of the run that executes it.
C2_ResumeSameDecisions ==
    Executed =>
        /\ last.step \in DOMAIN hist
        /\ last.ops = hist[last.step].ops

\* a resumed WACGAN run repeats a joint update of an earlier run
C2_Witness ==
    /\ model.variant = "WACGAN"
    /\ Executed
    /\ success
    /\ saved_step > 0
    /\ hist[last.step].runs >= 2
    /\ Joint
    /\ \E s \in DOMAIN hist : hist[s].ops = train_D

\* C3: with d_high_iters = 0, d_iters >= 1 and d_step_high_rounds >= 1 the
\* scheduler never raises ZeroDivisionError.
C3_NoZeroDivision ==
    (/\ model.variant = "WACGAN"
     /\ model.d_high_iters = 0
     /\ model.d_iters >= 1
     /\ model.d_step_high_rounds >= 1)
    => error \notin {"d_high_iters", "d_iters", "block_steps"}

\* C4: with d_high_iters = 0, d_iters >= 1 and d_step_high_rounds >= 2 a step
\* is a joint update iff (step + 1) mod d_iters = 0, and no step raises.
C4_ConstantRatio ==
    (/\ model.variant = "WACGAN"
     /\ model.d_high_iters = 0
     /\ model.d_iters >= 1
     /\ model.d_step_high_rounds >= 2)
    => /\ error = "none"
       /\ Executed => (Joint <=> (last.step + 1) % model.d_iters = 0)

\* a joint update of the STEADY phase behind a non-empty TRANSITION phase
C4_Witness ==
    /\ model.variant = "WACGAN"
    /\ model.d_high_iters = 0
    /\ model.d_iters >= 2
    /\ model.d_step_high_rounds >= 2
    /\ passing_steps(model) > 0
    /\ Executed
    /\ Joint
    /\ last.step >= passing_steps(model) + block_steps(model)

\* C5: at the start of every batch iteration step = epoch*num_batches + idx;
\* a batch increments step by exactly 1 and nothing inside the loops
\* changes it otherwise.
C5_StepIsEpochAndIdx ==
    [][/\ (pc' = "batch" /\ idx' < num_batches')
            => step' = epoch' * num_batches' + idx'
       /\ (pc = "batch" /\ idx' = idx + 1) => step' = step + 1
       /\ (pc \in {"epoch", "batch", "final"} /\ pc' # "idle")
            => step' \in {step, step + 1}]_vars

\* the first batch of a run resumed in the middle of a later epoch
C5_Witness ==
    /\ pc = "batch"
    /\ success
    /\ iters = 0
    /\ epoch > 0
    /\ idx > 0
    /\ idx < num_batches

\* C6: a successful resume at step s starts at epoch s // num_batches and at
\* batch s % num_batches; with num_batches = 10 and s = 25 at epoch 2, batch 5.
C6_ResumePosition ==
    (success /\ pc \in {"epoch", "batch", "final", "done"}) =>
        /\ num_batches > 0
        /\ start_epoch = saved_step \div num_batches
        /\ (pc = "batch" /\ epoch = start_epoch)
             => start_idx = saved_step % num_batches
        /\ (pc = "batch" /\ iters = 0)
             => /\ epoch = saved_step \div num_batches
                /\ idx = saved_step % num_batches
        /\ (pc = "batch" /\ iters = 0 /\ num_batches = 10 /\ saved_step = 25)
             => (start_epoch = 2 /\ start_idx = 5 /\ epoch = 2 /\ idx = 5)

\* the scenario: resumed after 25 steps of 10 batches per epoch
C6_Witness ==
    /\ model.variant = "GAN"
    /\ num_batches = 10
    /\ success
    /\ saved_step = 25
    /\ pc = "batch"
    /\ iters = 0
    /\ start_epoch = 2
    /\ start_idx = 5

\* C7: a successful load restores the step of a checkpoint that was saved,
\* the run continues from exactly that step, and each step it executes runs
\* the optimizers that the first run to execute that step ran.
C7_RoundTrip ==
    (success /\ pc # "idle") =>
        /\ saved_step \in DOMAIN ckpts
        /\ step = saved_step + iters
        /\ Executed =>
             /\ last.step = saved_step + iters - 1
             /\ hist[last.step].ops = last.ops

\* a run that resumed from its predecessor's checkpoint executes a step the
\* predecessor had executed after saving
C7_Witness ==
    /\ success
    /\ saved_step > 0
    /\ saved_step = latest
    /\ Executed
    /\ last.step = saved_step
    /\ hist[last.step].runs >= 2

\* C8: a train() call whose load fails, or that does not load, begins at
\* step 0 and epoch 0 and reaches the epoch loop.
C8_FailedLoadStartsAtZero ==
    [][(calls' = calls + 1 /\ ~success')
         => /\ step' = 0
            /\ start_epoch' = 0
            /\ epoch' = 0
            /\ pc' = "epoch"
            /\ error' = "none"]_vars

\* a failed load that returned a step other than 0
C8_Witness ==
    /\ args.resume
    /\ args.checkpoint_dir
    /\ ~success
    /\ saved_step > 0
    /\ pc = "batch"
    /\ step = 0

\* C9: with num_examples < batch_size train() raises before it updates,
\* saves or returns.
C9_ZeroBatchesFailFast ==
    (model.num_examples < model.batch_size) =>
        /\ pc \notin {"final", "done"}
        /\ iters = 0
        /\ call_saves = 0

\* what one batch may do to the session's variables: the variables the
\* optimizers of the step write receive one update, all others none
BatchWrote(fields) ==
    \A f \in DOMAIN params :
        params'[f] = IF f \in fields THEN params[f] + 1 ELSE params[f]

JointSteps(ss) == {s \in ss : hist[s].ops = train_D_G}

\* C11: in WARMUP (d_high_iters >= 1) a step is a joint update iff it is the
\* last of its group of d_high_iters steps, so WARMUP has exactly
\* d_intial_high_rounds joint updates; in the scenario 5/2/10/3 these are
\* the steps 4 and 9 of the steps 0..9.
C11_WarmupGroups ==
    (model.variant = "WACGAN" /\ model.d_high_iters >= 1) =>
        LET warmup == 0..(RuleInitial(model) - 1)
        IN  /\ \A s \in warmup \cap DOMAIN hist :
                 hist[s].ops = IF (s + 1) % model.d_high_iters = 0
                               THEN train_D_G ELSE train_D
            /\ warmup \subseteq DOMAIN hist
                 => Cardinality(JointSteps(warmup))
                      = model.d_intial_high_rounds
            /\ (model = ScenarioSchedule /\ warmup \subseteq DOMAIN hist)
                 => (warmup = 0..9 /\ JointSteps(warmup) = {4, 9})

\* the scenario after its WARMUP
C11_Witness ==
    /\ model = ScenarioSchedule
    /\ step = 10
    /\ initial_steps(model) = 10
    /\ JointSteps(0..9) = {4, 9}
    /\ Joint

\* C12: in STEADY (d_high_iters >= 1, d_iters >= 1) the decisions repeat
\* with period block_steps; the joint updates of a block are the step that
\* ends its first d_high_iters steps and then every d_iters-th step, which
\* are d_step_high_rounds joint updates per block.
C12_SteadyBlocks ==
    (/\ model.variant = "WACGAN"
     /\ model.d_high_iters >= 1
     /\ model.d_iters >= 1
     /\ model.d_step_high_rounds >= 1)
    => LET P == RulePassing(model)
           B == RuleBlock(model)
           Block(n) == (P + n * B)..(P + (n + 1) * B - 1)
       IN  /\ \A s \in DOMAIN hist :
                s >= P =>
                  /\ (hist[s].ops = train_D_G)
                       <=> \E k \in 0..(model.d_step_high_rounds - 1) :
                             (s - P) % B
                               = model.d_high_iters - 1 + k * model.d_iters
                  /\ hist[s].ops \in {train_D, train_D_G}
                  /\ (s + B) \in DOMAIN hist
                       => hist[s + B].ops = hist[s].ops
           /\ \A n \in 0..step :
                Block(n) \subseteq DOMAIN hist
                  => Cardinality(JointSteps(Block(n)))
                       = model.d_step_high_rounds

\* two complete STEADY blocks of bursts and short rounds
C12_Witness ==
    /\ model.variant = "WACGAN"
    /\ model.d_high_iters >= 2
    /\ model.d_iters >= 1
    /\ model.d_high_iters # model.d_iters
    /\ model.d_step_high_rounds >= 2
    /\ (passing_steps(model) + 2 * block_steps(model)) \in DOMAIN hist
    /\ Cardinality(JointSteps(passing_steps(model)..
                     (passing_steps(model) + 2 * block_steps(model) - 1)))
         = 2 * model.d_step_high_rounds

\* C13: in all three training loops a batch saves a checkpoint, after the
\* step increment and under the incremented step, exactly when
\* checkpoint_dir is given, save_step is non-zero and the incremented step
\* is a multiple of save_step; otherwise the batch saves nothing.
C13_PeriodicSave ==
    [][iters' = iters + 1 =>
         IF /\ args.checkpoint_dir
            /\ args.save_step # 0
            /\ step' % args.save_step = 0
         THEN /\ call_saves' = call_saves + 1
              /\ latest' = step'
              /\ step' \in DOMAIN ckpts'
              /\ ckpts'[step'] = params'
         ELSE UNCHANGED <<ckpts, latest, call_saves>>]_vars

C13_Witness ==
    /\ pc = "batch" /\ Executed
    /\ args.checkpoint_dir /\ args.save_step = MaxSaveStep
    /\ step = args.save_step /\ last.step = step - 1
    /\ call_saves = 1 /\ latest = step /\ DOMAIN ckpts = {step}
\* C14: a batch invokes sample_fn, with the incremented step, exactly when
\* sample_fn is given and either sample_step is an int stride dividing the
\* incremented step or sample_step is a collection containing it; nothing
\* else invokes sample_fn.
C14_SampleExactlyWhenDue ==
    [][IF iters' = iters + 1
       THEN IF /\ args.sample_fn
               /\ \/ /\ args.sample_step.int
                     /\ args.sample_step.stride # 0
                     /\ step' % args.sample_step.stride = 0
                  \/ /\ ~args.sample_step.int
                     /\ step' \in args.sample_step.steps
            THEN samples' = Append(samples, step')
            ELSE samples' = samples
       ELSE samples' = samples \/ (calls' # calls /\ samples' = << >>)]_vars

C14_Witness ==
    /\ args.sample_fn /\ ~args.sample_step.int
    /\ samples = <<1, MaxSaveStep>>
    /\ step = MaxSaveStep /\ last.step = step - 1
SavedAtFinalStep ==
    /\ call_saves >= 1
    /\ latest = step
    /\ step \in DOMAIN ckpts
    /\ ckpts[step] = params

\* C15 as stated: whenever train of GAN or WACGAN returns after all epochs,
\* the call has saved a checkpoint at the final value of step.
C15_FinalCheckpointAlways ==
    (pc = "done" /\ model.variant # "DiscoGAN") => SavedAtFinalStep

\* C15 amended: whenever train of GAN or WACGAN returns after all epochs and
\* checkpoint_dir was given, the call has saved a checkpoint at the final
\* value of step, whatever save_step is and also when no batch was executed.
C15_FinalCheckpoint ==
    (pc = "done" /\ model.variant # "DiscoGAN" /\ args.checkpoint_dir)
        => SavedAtFinalStep

C15_Witness ==
    /\ pc = "done" /\ model.variant = "WACGAN" /\ args.checkpoint_dir
    /\ args.save_step = 0
    /\ success /\ iters = 0 /\ num_batches > 0 /\ step > 0
    /\ step % MaxSaveStep # 0
    /\ call_saves = 1 /\ SavedAtFinalStep
\* C16: in the GAN and DiscoGAN loops every executed step runs both the
\* discriminator optimizer and the generator optimizer; there is no
\* discriminator-only and no generator-only step.
C16_AlwaysJoint ==
    model.variant \in {"GAN", "DiscoGAN"} =>
        /\ \A s \in DOMAIN hist : hist[s].ops = {"d_optim", "g_optim"}
        /\ Executed => last.ops = {"d_optim", "g_optim"}
        /\ DOMAIN hist = 0..(Cardinality(DOMAIN hist) - 1)

C16_Witness ==
    /\ model.variant = "DiscoGAN" /\ Executed
    /\ step = MaxEpochs * num_batches /\ num_batches >= 2
    /\ DOMAIN hist = 0..(step - 1)
    /\ \A s \in DOMAIN hist : hist[s].ops = {"d_optim", "g_optim"}
\* C17: in a joint update everything is evaluated against the weights as
\* they were before either optimizer wrote: the generator's gradient never
\* reads discriminator weights that d_optim of the same step has already
\* assigned.
C17_ConsistentSnapshot ==
    (Executed /\ last.ops = train_D_G) => last.g_reads_d = "before_d_optim"
StrictlyIncreasing(seq) ==
    \A i \in 1..(Len(seq) - 1) : seq[i] < seq[i + 1]

\* C18 as stated: with a writer attached every executed batch, in WACGAN the
\* discriminator-only steps included, appends one summary record tagged
\* with the batch's pre-increment step.
C18_RecordEveryBatch ==
    [][(iters' = iters + 1 /\ args.log_dir) =>
           summaries' = Append(summaries, step)]_vars

\* C18 amended: with a writer attached every executed batch of GAN and
\* DiscoGAN and every joint step of WACGAN appends one summary record tagged
\* with the batch's pre-increment step; a discriminator-only step of WACGAN
\* and a batch without a writer append nothing; the tags of a run are
\* strictly increasing.
C18_RecordPerSummaryStep ==
    [][/\ iters' = iters + 1 =>
            summaries' =
                IF args.log_dir /\ (model.variant # "WACGAN"
                                    \/ "g_optim" \in last'.ops)
                THEN Append(summaries, step) ELSE summaries
       /\ iters' # iters + 1 =>
            (summaries' = summaries \/ (calls' # calls /\ summaries' = << >>))
       /\ StrictlyIncreasing(summaries')]_vars

C18_Witness ==
    /\ model.variant = "WACGAN" /\ args.log_dir
    /\ Executed /\ last.ops = train_D_G
    /\ Len(summaries) >= 1 /\ Len(summaries) < iters
    /\ summaries[Len(summaries)] = last.step /\ last.step = step - 1
\* C19: for num_batches > 0 a train call started at step s0 comes to the end
\* of its loop having executed exactly max(0, num_epochs*num_batches - s0)
\* batches, and with step = num_epochs*num_batches whenever
\* s0 <= num_epochs*num_batches.
C19_BatchCount ==
    (num_batches > 0 /\ pc \in {"final", "done", "error"}) =>
        LET total == args.num_epochs * num_batches
            s0    == step - iters
        IN  /\ iters = IF total > s0 THEN total - s0 ELSE 0
            /\ s0 <= total => step = total
AllLabels(tensor, value) ==
    /\ DOMAIN tensor = 1..model.batch_size
    /\ \A i \in DOMAIN tensor : tensor[i] = value

\* C20: in GAN and DiscoGAN every real-label target is 1 - d_label_smooth
\* when d_label_smooth > 0 and exactly 1 otherwise, every fake-label target
\* is exactly 0 and every generator target exactly 1 whatever d_label_smooth
\* is; DiscoGAN uses the same real labels for its x and y discriminators.
C20_OneSidedSmoothing ==
    (targets.built /\ model.variant \in {"GAN", "DiscoGAN"}) =>
        LET discriminators ==
                IF model.variant = "GAN" THEN {1} ELSE {1, 2}
        IN  /\ DOMAIN targets.d_real = discriminators
            /\ DOMAIN targets.d_fake = discriminators
            /\ DOMAIN targets.g = discriminators
            /\ \A k \in discriminators :
                    /\ AllLabels(targets.d_real[k],
                                 IF d_label_smooth > 0
                                 THEN SmoothUnits - d_label_smooth
                                 ELSE SmoothUnits)
                    /\ AllLabels(targets.d_fake[k], 0)
                    /\ AllLabels(targets.g[k], SmoothUnits)
            /\ model.variant = "DiscoGAN" =>
                    targets.d_real[1] = targets.d_real[2]

C20_Witness ==
    /\ targets.built /\ model.variant = "DiscoGAN"
    /\ d_label_smooth = DefaultSmooth /\ model.batch_size = MaxOutputs
    /\ targets.d_real[1][MaxOutputs] = SmoothUnits - DefaultSmooth
    /\ targets.d_real[2][MaxOutputs] = SmoothUnits - DefaultSmooth
    /\ targets.d_fake[2][MaxOutputs] = 0
    /\ targets.g[2][MaxOutputs] = SmoothUnits
RECURSIVE RatSum(_, _)
\* the sum of the components 0..top of a label vector
RatSum(vector, top) ==
    IF top < 0 THEN Rat(0, 1)
    ELSE RatAdd(RatSum(vector, top - 1), vector[top])

\* C21: in WACGAN, for d_label_smooth = s > 0 and true class y every
\* component of the real-label target is (1-s)*one_hot(y) + s/num_classes,
\* so the components sum to 1; for s = 0 the target is the exact one-hot
\* vector; the target of the generated examples is always the exact one-hot
\* vector of the sampled class c.
C21_CategoricalSmoothing ==
    (targets.built /\ model.variant = "WACGAN") =>
        LET classes == 0..(num_classes - 1)
            hot(label, j) == IF j = label THEN 1 ELSE 0
        IN  /\ DOMAIN class_targets.c_real = DOMAIN feed.y
            /\ DOMAIN class_targets.c_fake = DOMAIN feed.c
            /\ \A i \in DOMAIN feed.y :
                  LET t == class_targets.c_real[i]
                  IN  /\ DOMAIN t = classes
                      /\ d_label_smooth > 0 =>
                            /\ \A j \in classes :
                                  RatEq(t[j],
                                        Rat((SmoothUnits - d_label_smooth)
                                              * num_classes * hot(feed.y[i], j)
                                              + d_label_smooth,
                                            SmoothUnits * num_classes))
                            /\ RatEq(RatSum(t, num_classes - 1), Rat(1, 1))
                      /\ d_label_smooth = 0 =>
                            \A j \in classes :
                                t[j] = Rat(hot(feed.y[i], j), 1)
            /\ \A i \in DOMAIN feed.c :
                  LET t == class_targets.c_fake[i]
                  IN  /\ DOMAIN t = classes
                      /\ \A j \in classes : t[j] = Rat(hot(feed.c[i], j), 1)

C21_Witness ==
    /\ targets.built /\ model.variant = "WACGAN"
    /\ d_label_smooth = DefaultSmooth /\ num_classes = MaxClasses
    /\ feed.y[1] = 1 /\ feed.c[1] = 0
    /\ RatEq(class_targets.c_real[1][1],
             Rat((SmoothUnits - DefaultSmooth) * MaxClasses + DefaultSmooth,
                 SmoothUnits * MaxClasses))
    /\ RatEq(class_targets.c_real[1][0],
             Rat(DefaultSmooth, SmoothUnits * MaxClasses))
    /\ class_targets.c_fake[1][0] = Rat(1, 1)
\* C22: in WACGAN d_loss = mean(D(fake)) - mean(D(real)),
\* g_loss = -mean(D(fake)) = -d_loss_fake,
\* d_total_loss = d_loss + d_c_loss + d_grad_loss + d_reg_loss and
\* g_total_loss = g_loss + g_c_loss + g_reg_loss, a regularization term
\* being 0 when its partition has registered no regularization loss.
C22_LossComposition ==
    loss_values.evaluated =>
        LET v == loss_values
            rows == Len(outputs.d_fake)
            fake == Sum(outputs.d_fake)
            real == Sum(outputs.d_real)
            g_reg == Sum(outputs.g_reg_ops)
            d_reg == Sum(outputs.d_reg_ops)
        IN  /\ RatEq(v.d_loss, Rat(fake - real, rows))
            /\ RatEq(v.g_loss, Rat(-fake, rows))
            /\ RatEq(v.g_loss, RatSub(Rat(0, 1), v.d_loss_fake))
            /\ RatEq(v.d_total_loss,
                     Rat(fake - real + rows * (outputs.d_c_loss
                            + outputs.d_grad_loss + d_reg), rows))
            /\ RatEq(v.g_total_loss,
                     Rat(rows * (outputs.g_c_loss + g_reg) - fake, rows))
            /\ outputs.g_reg_ops = << >> => v.g_reg_loss = Rat(0, 1)
            /\ outputs.d_reg_ops = << >> => v.d_reg_loss = Rat(0, 1)

C22_Witness ==
    /\ loss_values.evaluated
    /\ Sum(outputs.d_fake) = 1 /\ Sum(outputs.d_real) = -1
    /\ outputs.d_c_loss = 1 /\ outputs.d_grad_loss = 1
    /\ outputs.g_reg_ops = << >> /\ Len(outputs.d_reg_ops) = MaxRegOps
    /\ RatEq(loss_values.d_loss, Rat(2, ValueRows))
    /\ RatEq(loss_values.g_loss, Rat(-1, ValueRows))
    /\ loss_values.g_reg_loss = Rat(0, 1)
\* C23: every sampling path of every variant feeds is_training = False and
\* fetches no optimizer op, and the call changes neither the parameters nor
\* the normalization statistics nor the step.
C23_SamplingIsInference ==
    [][sampled' # sampled =>
         /\ sampled'.is_training = FALSE
         /\ sampled'.fetches \cap {"d_optim", "g_optim"} = {}
         /\ sampled'.fetches # {}
         /\ params' = params
         /\ step' = step
         /\ UNCHANGED <<ckpts, latest, hist>>]_vars

C23_Witness ==
    /\ model.variant = "DiscoGAN" /\ sampled.call.fn = "sample_y"
    /\ sampled.path = "default" /\ ~sampled.is_training
    /\ pc = "batch" /\ step >= 1
    /\ params.g_vars = step /\ params.g_stats = step
\* C30: a sampler takes exactly one path, by fixed precedence: the explicit
\* input when it is supplied (in WACGAN.sample only when both z and c are),
\* otherwise num_samples freshly drawn codes (in WACGAN with random labels
\* in [0, num_classes)) when num_samples is supplied, otherwise the model's
\* default source; in WACGAN.sample a z without c or a c without z is never
\* fed.
C30_SamplerPrecedence ==
    sampled.call.fn # "none" =>
        LET call == sampled.call
            explicit == IF model.variant = "WACGAN"
                        THEN call.has_z /\ call.has_c ELSE call.has_z
            drawn == ~explicit /\ call.has_n
        IN  /\ sampled.path \in {"explicit", "drawn", "default"}
            /\ sampled.path = "explicit" <=> explicit
            /\ sampled.path = "drawn" <=> drawn
            /\ sampled.path = "default" <=> (~explicit /\ ~drawn)
            /\ sampled.z = "given" <=> explicit
            /\ sampled.z = "drawn" <=> drawn
            /\ sampled.z = "default" <=> (~explicit /\ ~drawn)
            /\ drawn => sampled.rows = call.n
            /\ model.variant = "WACGAN" =>
                  /\ sampled.c = sampled.z
                  /\ explicit => sampled.labels = call.c
                  /\ drawn =>
                        /\ DOMAIN sampled.labels = 1..call.n
                        /\ \A i \in 1..call.n :
                              /\ sampled.labels[i] >= 0
                              /\ sampled.labels[i] < num_classes
                  /\ (call.has_z # call.has_c) =>
                        (sampled.z # "given" /\ sampled.c # "given")

C30_Witness ==
    /\ model.variant = "WACGAN"
    /\ sampled.call.has_z /\ ~sampled.call.has_c /\ sampled.call.has_n
    /\ sampled.call.n = MaxSamples
    /\ sampled.path = "drawn" /\ sampled.z = "drawn"
    /\ sampled.labels[MaxSamples] = num_classes - 1
\* the reference loop of the comment in WACGAN.train: the number of
\* discriminator updates of round k (gen_iterations = k)
RefDIters(m, k) ==
    IF k < m.d_intial_high_rounds \/ k % m.d_step_high_rounds = 0
    THEN m.d_high_iters ELSE m.d_iters

RECURSIVE RefGeneratorStep(_, _)
\* the step of the k-th generator update of the reference loop, when the
\* generator update shares the step of the round's last discriminator update
RefGeneratorStep(m, k) ==
    IF k = 0 THEN RefDIters(m, 0) - 1
    ELSE RefGeneratorStep(m, k - 1) + RefDIters(m, k)

\* C24: for d_high_iters >= 1, d_iters >= 1, d_step_high_rounds >= 1 the
\* k-th generator update of the scheduler is in the step of the last of
\* exactly N_k discriminator updates since the previous generator update,
\* N_k being the d_iters of round k of the reference loop, through all
\* phase boundaries.
C24_ReferenceLoop ==
    (/\ model.variant = "WACGAN"
     /\ model.d_high_iters >= 1
     /\ model.d_iters >= 1
     /\ model.d_step_high_rounds >= 1)
    => /\ \A s \in DOMAIN hist :
            (hist[s].ops = train_D_G)
                <=> \E k \in 0..s : RefGeneratorStep(model, k) = s
       /\ \A s \in DOMAIN hist : "d_optim" \in hist[s].ops
       /\ DOMAIN hist = 0..(step - 1)

\* a run through WARMUP, TRANSITION and the first burst of a STEADY block
C24_Witness ==
    /\ model.variant = "WACGAN"
    /\ model.d_high_iters >= 2 /\ model.d_iters >= 2
    /\ model.d_high_iters # model.d_iters
    /\ model.d_intial_high_rounds >= 1 /\ model.d_step_high_rounds >= 2
    /\ initial_steps(model) < passing_steps(model)
    /\ step = passing_steps(model) + block_steps(model) + model.d_high_iters
    /\ Joint
    /\ RefGeneratorStep(model, model.d_intial_high_rounds
                                 + 2 * model.d_step_high_rounds
                                 - (model.d_intial_high_rounds
                                      % model.d_step_high_rounds)) = step - 1
\* C25: every executed step of WACGAN.train updates the discriminator and
\* the generator is updated only in steps that also update the
\* discriminator; after n executed steps from step 0 the discriminator has
\* received exactly n updates and the generator at most n.
C25_DiscriminatorEveryStep ==
    model.variant = "WACGAN" =>
        /\ \A s \in DOMAIN hist : "d_optim" \in hist[s].ops
        /\ Executed => "d_optim" \in last.ops
        /\ params.d_vars = iters
        /\ params.g_vars <= iters
        /\ params.g_vars = Cardinality(JointSteps(DOMAIN hist))

C25_Witness ==
    /\ model.variant = "WACGAN" /\ Executed
    /\ iters >= 4 /\ step = iters
    /\ params.d_vars = iters
    /\ params.g_vars >= 1 /\ params.g_vars < iters
    /\ last.ops = train_D
BurstLimit ==
    IF model.d_high_iters >= model.d_iters
    THEN model.d_high_iters ELSE model.d_iters

SchedulerResponds ==
    (/\ model.variant = "WACGAN"
     /\ model.d_high_iters >= 1
     /\ model.d_iters >= 1
     /\ model.d_step_high_rounds >= 1)
    => LET updates == JointSteps(DOMAIN hist)
       IN  /\ step >= BurstLimit => updates # {}
           /\ \A s \in updates :
                 \/ \E t \in updates :
                      /\ t < s
                      /\ updates \cap ((t + 1)..(s - 1)) = {}
                      /\ s - t \in {model.d_high_iters, model.d_iters}
                 \/ /\ updates \cap (0..(s - 1)) = {}
                    /\ s < BurstLimit

\* C26: for d_high_iters >= 1, d_iters >= 1, d_step_high_rounds >= 1 the
\* first generator update is at a step below max(d_high_iters, d_iters),
\* two consecutive generator updates are exactly d_high_iters or exactly
\* d_iters steps apart, and, as long as the run goes on, a generator update
\* follows within max(d_high_iters, d_iters) steps of every step.
C26_BoundedResponse ==
    /\ []SchedulerResponds
    /\ \A n \in 0..(SchedEpochs * (SchedExamples \div BatchSize)) :
          (/\ model.variant = "WACGAN"
           /\ model.d_high_iters >= 1
           /\ model.d_iters >= 1
           /\ model.d_step_high_rounds >= 1
           /\ pc = "batch"
           /\ step = n
           /\ n + BurstLimit <= args.num_epochs * num_batches)
          ~> (\E s \in n..(n + BurstLimit - 1) :
                 s \in DOMAIN hist /\ hist[s].ops = train_D_G)

C26_Witness ==
    /\ model.variant = "WACGAN"
    /\ model.d_high_iters = SchedMaxHighIters /\ model.d_iters = 1
    /\ model.d_intial_high_rounds = 0 /\ model.d_step_high_rounds >= 2
    /\ step = 2 * block_steps(model)
    /\ Cardinality(JointSteps(DOMAIN hist)) = 2 * model.d_step_high_rounds
    /\ Joint
PhaseRank(phase) ==
    IF phase = "WARMUP" THEN 1 ELSE IF phase = "TRANSITION" THEN 2 ELSE 3

NonNegativeSchedule ==
    /\ model.variant = "WACGAN"
    /\ model.d_step_high_rounds >= 1
    /\ model.d_iters >= 0
    /\ model.d_high_iters >= 0
    /\ model.d_intial_high_rounds >= 0

\* a step was executed before that lies beyond the step executed last, in
\* a later phase
ReturnedToEarlierPhase ==
    /\ Executed
    /\ \E s \in DOMAIN hist :
         /\ s > last.step
         /\ PhaseRank(Phase(model, s)) > PhaseRank(Phase(model, last.step))

\* C27 as stated: for non-negative configurations with
\* d_step_high_rounds >= 1, 0 <= initial_steps <= passing_steps and
\* passing_steps - initial_steps is a multiple of d_iters smaller than
\* d_step_high_rounds * d_iters; along any run, resumes included, the phase
\* never returns to an earlier one.
C27_PhaseNeverReturns ==
    NonNegativeSchedule =>
        /\ 0 <= initial_steps(model)
        /\ initial_steps(model) <= passing_steps(model)
        /\ \E t \in 0..model.d_step_high_rounds :
              passing_steps(model) - initial_steps(model) = t * model.d_iters
        /\ passing_steps(model) - initial_steps(model)
              < model.d_step_high_rounds * model.d_iters
        /\ ~ReturnedToEarlierPhase

\* C27 amended: for non-negative configurations with
\* d_step_high_rounds >= 1, 0 <= initial_steps <= passing_steps and
\* passing_steps - initial_steps is t * d_iters for a t below
\* d_step_high_rounds; within one train call the phase of the executed
\* steps only moves forward.
C27_PhaseForwardInCall ==
    /\ [](NonNegativeSchedule =>
            /\ 0 <= initial_steps(model)
            /\ initial_steps(model) <= passing_steps(model)
            /\ \E t \in 0..(model.d_step_high_rounds - 1) :
                  passing_steps(model) - initial_steps(model)
                    = t * model.d_iters)
    /\ [][(NonNegativeSchedule /\ iters >= 1 /\ iters' = iters + 1) =>
             /\ last'.step = last.step + 1
             /\ PhaseRank(Phase(model, last'.step))
                  >= PhaseRank(Phase(model, last.step))]_vars

\* a resumed call executes a WARMUP or TRANSITION step after an earlier
\* call, cut short, had reached a later phase
C27_Witness ==
    /\ NonNegativeSchedule /\ success /\ calls = 2
    /\ model.d_iters >= 1
    /\ ReturnedToEarlierPhase
    /\ last.step = saved_step /\ saved_step = MaxSaveStep
\* the position of an effect among the effects of the last batch, 0 when
\* the batch did not have it
Position(name) ==
    IF \E i \in DOMAIN last.effects : last.effects[i] = name
    THEN CHOOSE i \in DOMAIN last.effects : last.effects[i] = name
    ELSE 0

Before(first, second) ==
    (Position(first) > 0 /\ Position(second) > 0)
        => Position(first) < Position(second)

EffectsInOrder ==
    Executed =>
        /\ Position("sess.run") = 1
        /\ Position("step += 1") > 1
        /\ Before("sess.run", "add_summary")
        /\ Before("add_summary", "step += 1")
        /\ Before("step += 1", "save")
        /\ Before("step += 1", "sample_fn")
        /\ Before("save", "sample_fn")
        /\ Position("add_summary") > 0 =>
              (summaries # << >> /\ summaries[Len(summaries)] = last.step)
        /\ Position("save") > 0 =>
              (latest = last.step + 1 /\ ckpts[latest] = params)
        /\ Position("sample_fn") > 0 =>
              (samples # << >> /\ samples[Len(samples)] = last.step + 1)

\* C28 as stated: the effects of a batch come in the order optimizer
\* update, summary, step increment, save, sample_fn, and a checkpoint saved
\* under step S always holds parameters that have received exactly S
\* training steps.
C28_OrderAndExactSteps ==
    /\ EffectsInOrder
    /\ \A s \in DOMAIN ckpts : ckpts[s].d_vars = s

\* C28 amended: the effects of a batch come in the order optimizer update,
\* summary tagged with the pre-increment step, step increment, save,
\* sample_fn; a checkpoint saved by a batch under step S holds the
\* parameters as that batch's update left them, which have received
\* exactly S training steps whenever the parameters had received exactly
\* step training steps when the batch began.
C28_OrderOfEffects ==
    /\ []EffectsInOrder
    /\ [][(iters' = iters + 1 /\ latest' # latest) =>
             /\ latest' = step'
             /\ ckpts'[step'] = params'
             /\ params.d_vars = step => ckpts'[step'].d_vars = step']_vars
    /\ [](calls <= 1 => \A s \in DOMAIN ckpts : ckpts[s].d_vars = s)

C28_Witness ==
    /\ Executed /\ pc = "batch"
    /\ last.effects = <<"sess.run", "add_summary", "step += 1", "save",
                        "sample_fn">>
    /\ step = MaxSaveStep /\ latest = step /\ ckpts[step].d_vars = step
    /\ samples = <<1, MaxSaveStep>>
\* C29: DiscoGAN.train never forces a final checkpoint: every save of a
\* call is made by a batch, at a step that is a positive multiple of
\* save_step; so when the call returns at a step that is no multiple of
\* save_step, the latest checkpoint of the call is at the largest multiple
\* of save_step below that step and does not hold the updates made after
\* it.
C29_NoFinalCheckpoint ==
    /\ [][(model.variant = "DiscoGAN"
            /\ (ckpts' # ckpts \/ latest' # latest
                   \/ call_saves' > call_saves)) =>
             /\ iters' = iters + 1
             /\ args.save_step > 0
             /\ step' > 0
             /\ step' % args.save_step = 0
             /\ latest' = step']_vars
    /\ []((/\ model.variant = "DiscoGAN"
            /\ pc = "done"
            /\ call_saves >= 1
            /\ args.save_step > 0
            /\ step % args.save_step # 0) =>
             /\ latest = (step \div args.save_step) * args.save_step
             /\ latest < step
             /\ step \notin DOMAIN ckpts
             /\ ckpts[latest].d_vars < params.d_vars
             /\ ckpts[latest].g_vars < params.g_vars)

C29_Witness ==
    /\ model.variant = "DiscoGAN" /\ pc = "done"
    /\ args.checkpoint_dir /\ args.save_step = MaxSaveStep
    /\ call_saves = 1 /\ step = MaxSaveStep + 1
    /\ latest = MaxSaveStep /\ DOMAIN ckpts = {MaxSaveStep}
    /\ params.d_vars = ckpts[latest].d_vars + 1
====
